---- MODULE Spec2Model ----
(***************************************************************************)
(* Reservation scheduling of the meeting-room booking system               *)
(* (apps/bookings): the Reservation model's validation, the reservation    *)
(* forms and the views that create, edit, cancel and change the status of  *)
(* reservations.  Time is in seconds; the database is the set of stored    *)
(* Reservation rows.                                                       *)
(***************************************************************************)
EXTENDS Integers, FiniteSets, Sequences, TLC

VARIABLES
    now,            \* timezone.now()
    reservations,   \* rows of bookings_reservation
    nextPk,         \* next primary key the database hands out
    rooms,          \* rows of bookings_meeting_room, by primary key
    configs,        \* rows of bookings_reservation_config, by company
    response,       \* what the last request answered
    workers         \* requests in flight in concurrent worker processes

vars == <<now, reservations, nextPk, rooms, configs, response, workers>>

----------------------------------------------------------------------------
(* Bounds of the model *)

MaxReservations == 2        \* reservations ever inserted
MaxTicks == 2               \* clock readings after the first

(* Program constants *)

MinDurationSeconds == 900       \* models.py:179, forms.py:190
MaxDurationSeconds == 28800     \* models.py:181, forms.py:192
QuickMinMinutes == 15           \* forms.py:518
QuickMaxMinutes == 480          \* forms.py:519

STATUS_PENDING == "pending"
STATUS_CONFIRMED == "confirmed"
STATUS_CANCELLED == "cancelled"
STATUS_COMPLETED == "completed"
STATUS_IN_USE == "in_use"
STATUS_REJECTED == "rejected"

STATUS_CHOICES ==
    {STATUS_PENDING, STATUS_CONFIRMED, STATUS_CANCELLED,
     STATUS_COMPLETED, STATUS_IN_USE, STATUS_REJECTED}

(* Python's None for a primary key, a date-time, a foreign key.  A missing *)
(* participant_count is 0: the code only tests its truth value.            *)
NonePk == 0
NoneTime == 0 - 1
NoneRef == "None"

----------------------------------------------------------------------------
(* Users, their profiles, companies *)

Users == {"admin_a", "user_a", "admin_b"}

UserProfile ==
    [u \in Users |->
        CASE u = "admin_a" -> [company |-> "A", role |-> "admin"]
          [] u = "user_a"  -> [company |-> "A", role |-> "user"]
          [] u = "admin_b" -> [company |-> "B", role |-> "admin"]]

(* Company.admin *)
CompanyAdmin == [c \in {"A", "B"} |-> IF c = "A" THEN "admin_a" ELSE "admin_b"]

is_company_admin(u) ==
    \/ UserProfile[u].role = "admin"
    \/ CompanyAdmin[UserProfile[u].company] = u

InitRooms ==
    [r \in {"a1", "b1"} |->
        [company |-> IF r = "a1" THEN "A" ELSE "B",
         capacity |-> 2,
         is_available |-> TRUE]]

(* ReservationConfig: the row of a company, or the absence of one *)
(* with the defaults of its fields                                        *)
DefaultMinDurationMinutes == 15
DefaultMaxDurationHours == 8

NoConfig ==
    [exists |-> FALSE, require_approval |-> FALSE, auto_approval |-> FALSE,
     min_duration_minutes |-> DefaultMinDurationMinutes,
     max_duration_hours |-> DefaultMaxDurationHours]

----------------------------------------------------------------------------
(* Reservation: the model *)

(* An unsaved Reservation() as a ModelForm builds it *)
NewReservation ==
    [pk |-> NonePk, company |-> NoneRef, meeting_room |-> NoneRef, user |-> NoneRef,
     start_time |-> NoneTime, end_time |-> NoneTime, participant_count |-> 0,
     status |-> STATUS_PENDING]

(* A wrong list of statuses: a cancelled reservation still blocks *)
Reservation_statuses_with_cancelled ==
    {STATUS_PENDING, STATUS_CONFIRMED, STATUS_IN_USE, STATUS_CANCELLED}

(* conflicting_statuses of Reservation.clean *)
Reservation_conflicting_statuses == {STATUS_PENDING, STATUS_CONFIRMED, STATUS_IN_USE}

(* A wrong overlap test: only the reservations that contain the window *)
filter_containing(db, meeting_room, statuses, start_time, end_time) ==
    {r \in db :
        /\ r.meeting_room = meeting_room
        /\ r.status \in statuses
        /\ r.start_time < start_time
        /\ r.end_time > end_time}

(* A wrong overlap test: closed intervals, so that touching windows overlap *)
filter_closed(db, meeting_room, statuses, start_time, end_time) ==
    {r \in db :
        /\ r.meeting_room = meeting_room
        /\ r.status \in statuses
        /\ r.start_time <= end_time
        /\ r.end_time >= start_time}

(* Reservation.objects.filter(meeting_room=..., status__in=...,             *)
(* start_time__lt=end_time, end_time__gt=start_time): the query that every  *)
(* conflict check of the application issues                                 *)
filter_overlapping(db, meeting_room, statuses, start_time, end_time) ==
    {r \in db :
        /\ r.meeting_room = meeting_room
        /\ r.status \in statuses
        /\ r.start_time < end_time
        /\ r.end_time > start_time}

(* The query of Reservation.clean; .exclude(pk=self.pk) when self.pk is set *)
Reservation_conflicting(self, db) ==
    LET conflicting == filter_overlapping(db, self.meeting_room,
                           Reservation_conflicting_statuses,
                           self.start_time, self.end_time)
    IN  IF self.pk = NonePk
        THEN conflicting
        ELSE {r \in conflicting : r.pk # self.pk}

(* A wrong order: the duration is checked before the time range *)
Reservation_clean_duration_first(self, db, rms, t) ==
    IF self.start_time = NoneTime \/ self.end_time = NoneTime THEN "TypeError"
    ELSE IF self.end_time - self.start_time < MinDurationSeconds THEN "DurationTooShort"
    ELSE IF self.end_time - self.start_time > MaxDurationSeconds THEN "DurationTooLong"
    ELSE IF self.start_time >= self.end_time THEN "InvalidTimeRange"
    ELSE IF self.start_time < t THEN "PastStart"
    ELSE IF self.meeting_room = NoneRef THEN "RelatedObjectDoesNotExist"
    ELSE IF Reservation_conflicting(self, db) # {} THEN "TimeConflict"
    ELSE IF /\ self.participant_count # 0
            /\ self.participant_count > rms[self.meeting_room].capacity
         THEN "CapacityExceeded"
    ELSE "ok"

(* A missing check: the start is not compared with the current time *)
Reservation_clean_no_past_check(self, db, rms, t) ==
    IF self.start_time = NoneTime \/ self.end_time = NoneTime THEN "TypeError"
    ELSE IF self.start_time >= self.end_time THEN "InvalidTimeRange"
    ELSE IF self.end_time - self.start_time < MinDurationSeconds THEN "DurationTooShort"
    ELSE IF self.end_time - self.start_time > MaxDurationSeconds THEN "DurationTooLong"
    ELSE IF self.meeting_room = NoneRef THEN "RelatedObjectDoesNotExist"
    ELSE IF Reservation_conflicting(self, db) # {} THEN "TimeConflict"
    ELSE IF /\ self.participant_count # 0
            /\ self.participant_count > rms[self.meeting_room].capacity
         THEN "CapacityExceeded"
    ELSE "ok"

(* A wrong clean: the start is compared with the clock only for a          *)
(* reservation that is not stored yet                                       *)
Reservation_clean_past_check_on_insert(self, db, rms, t) ==
    IF self.start_time = NoneTime \/ self.end_time = NoneTime THEN "TypeError"
    ELSE IF self.start_time >= self.end_time THEN "InvalidTimeRange"
    ELSE IF self.pk = NonePk /\ self.start_time < t THEN "PastStart"
    ELSE IF self.end_time - self.start_time < MinDurationSeconds THEN "DurationTooShort"
    ELSE IF self.end_time - self.start_time > MaxDurationSeconds THEN "DurationTooLong"
    ELSE IF self.meeting_room = NoneRef THEN "RelatedObjectDoesNotExist"
    ELSE IF Reservation_conflicting(self, db) # {} THEN "TimeConflict"
    ELSE IF /\ self.participant_count # 0
            /\ self.participant_count > rms[self.meeting_room].capacity
         THEN "CapacityExceeded"
    ELSE "ok"

(* Reservation.clean: the error it raises, or "ok".  Comparing None with a  *)
(* date-time is a TypeError, reading an unset meeting_room raises           *)
(* RelatedObjectDoesNotExist; neither is a ValidationError.                 *)
Reservation_clean(self, db, rms, t) ==
    IF self.start_time = NoneTime \/ self.end_time = NoneTime THEN "TypeError"
    ELSE IF self.start_time >= self.end_time THEN "InvalidTimeRange"
    ELSE IF self.start_time < t THEN "PastStart"
    ELSE IF self.end_time - self.start_time < MinDurationSeconds THEN "DurationTooShort"
    ELSE IF self.end_time - self.start_time > MaxDurationSeconds THEN "DurationTooLong"
    ELSE IF self.meeting_room = NoneRef THEN "RelatedObjectDoesNotExist"
    ELSE IF Reservation_conflicting(self, db) # {} THEN "TimeConflict"
    ELSE IF /\ self.participant_count # 0
            /\ self.participant_count > rms[self.meeting_room].capacity
         THEN "CapacityExceeded"
    ELSE "ok"

ValidationErrors ==
    {"InvalidTimeRange", "PastStart", "DurationTooShort", "DurationTooLong",
     "TimeConflict", "CapacityExceeded"}

(* The row written by super().save(): an INSERT takes the next key *)
Written(self, db, pk) ==
    IF self.pk = NonePk
    THEN db \cup {[self EXCEPT !.pk = pk]}
    ELSE {r \in db : r.pk # self.pk} \cup {self}

(* A wrong predicate: the start time is not looked at *)
can_be_cancelled_any_time(self, t) ==
    self.status \in {STATUS_PENDING, STATUS_CONFIRMED}

(* A wrong predicate: the active statuses, in_use among them *)
can_be_cancelled_while_in_use(self, t) ==
    /\ self.status \in {STATUS_PENDING, STATUS_CONFIRMED, STATUS_IN_USE}
    /\ self.start_time > t

(* A wrong predicate: the status is not looked at *)
can_be_cancelled_any_status(self, t) == self.start_time > t

can_be_cancelled(self, t) ==
    /\ self.status \in {STATUS_PENDING, STATUS_CONFIRMED}
    /\ self.start_time > t

----------------------------------------------------------------------------
(* ReservationForm: the ModelForm of the create and edit views.  A request  *)
(* posts data = [meeting_room, start_time, end_time, participant_count].    *)

(* A wrong queryset: the rooms of every company *)
ReservationForm_rooms_any_company(company, rms) ==
    {m \in DOMAIN rms : rms[m].is_available}

(* __init__: the queryset of the meeting_room field *)
ReservationForm_rooms(company, rms) ==
    {m \in DOMAIN rms : rms[m].company = company /\ rms[m].is_available}

(* A wrong list of statuses: a pending reservation does not block *)
ReservationForm_statuses_without_pending == {STATUS_CONFIRMED, STATUS_IN_USE}

(* conflicting_statuses of ReservationForm.clean *)
ReservationForm_conflicting_statuses == {STATUS_PENDING, STATUS_CONFIRMED, STATUS_IN_USE}

(* The query of ReservationForm.clean *)
ReservationForm_conflicting(cleaned, instance, db) ==
    LET conflicting == filter_overlapping(db, cleaned.meeting_room,
                           ReservationForm_conflicting_statuses,
                           cleaned.start_time, cleaned.end_time)
    IN  IF instance.pk # NonePk
        THEN {r \in conflicting : r.pk # instance.pk}
        ELSE conflicting

(* A wrong bound: a window of exactly the maximum is too long *)
ReservationForm_clean_exclusive_maximum(cleaned, instance, db, rms, t) ==
    IF cleaned.start_time >= cleaned.end_time
    THEN [error |-> "InvalidTimeRange", field |-> "end_time"]
    ELSE IF cleaned.start_time < t
    THEN [error |-> "PastStart", field |-> "start_time"]
    ELSE IF cleaned.end_time - cleaned.start_time < MinDurationSeconds
    THEN [error |-> "DurationTooShort", field |-> "end_time"]
    ELSE IF cleaned.end_time - cleaned.start_time >= MaxDurationSeconds
    THEN [error |-> "DurationTooLong", field |-> "end_time"]
    ELSE IF /\ cleaned.meeting_room # NoneRef
            /\ ReservationForm_conflicting(cleaned, instance, db) # {}
    THEN [error |-> "TimeConflict", field |-> ""]
    ELSE IF /\ cleaned.meeting_room # NoneRef
            /\ cleaned.participant_count # 0
            /\ cleaned.participant_count > rms[cleaned.meeting_room].capacity
    THEN [error |-> "CapacityExceeded", field |-> "participant_count"]
    ELSE [error |-> "ok", field |-> ""]

(* ReservationForm.clean: the error it raises and the field it is keyed by *)
(* ("" for a non-field error).  cleaned.meeting_room is NoneRef when the    *)
(* posted room failed the field's own validation.                           *)
ReservationForm_clean(cleaned, instance, db, rms, t) ==
    IF cleaned.start_time >= cleaned.end_time
    THEN [error |-> "InvalidTimeRange", field |-> "end_time"]
    ELSE IF cleaned.start_time < t
    THEN [error |-> "PastStart", field |-> "start_time"]
    ELSE IF cleaned.end_time - cleaned.start_time < MinDurationSeconds
    THEN [error |-> "DurationTooShort", field |-> "end_time"]
    ELSE IF cleaned.end_time - cleaned.start_time > MaxDurationSeconds
    THEN [error |-> "DurationTooLong", field |-> "end_time"]
    ELSE IF /\ cleaned.meeting_room # NoneRef
            /\ ReservationForm_conflicting(cleaned, instance, db) # {}
    THEN [error |-> "TimeConflict", field |-> ""]
    ELSE IF /\ cleaned.meeting_room # NoneRef
            /\ cleaned.participant_count # 0
            /\ cleaned.participant_count > rms[cleaned.meeting_room].capacity
    THEN [error |-> "CapacityExceeded", field |-> "participant_count"]
    ELSE [error |-> "ok", field |-> ""]

(* form.is_valid(): the fields are cleaned, clean() runs, the fields still  *)
(* in cleaned_data are copied to the instance (an error keyed by a field    *)
(* removes that field from cleaned_data), and Reservation.clean runs on the *)
(* instance whatever the form found.                                        *)
ReservationForm_is_valid(company, data, instance, db, rms, t) ==
    LET room_ok == data.meeting_room \in ReservationForm_rooms(company, rms)
        cleaned == [data EXCEPT !.meeting_room = IF room_ok THEN @ ELSE NoneRef]
        fc == ReservationForm_clean(cleaned, instance, db, rms, t)
        inst == [instance EXCEPT
                    !.meeting_room = IF room_ok THEN data.meeting_room ELSE @,
                    !.start_time = IF fc.field = "start_time" THEN @ ELSE data.start_time,
                    !.end_time = IF fc.field = "end_time" THEN @ ELSE data.end_time,
                    !.participant_count =
                        IF fc.field = "participant_count" THEN @ ELSE data.participant_count]
        mc == Reservation_clean(inst, db, rms, t)
    IN  [field_error |-> IF room_ok THEN "ok" ELSE "InvalidChoice",
         form_error |-> fc.error,
         model_error |-> mc,
         instance |-> inst,
         valid |-> room_ok /\ fc.error = "ok" /\ mc = "ok"]

(* ReservationForm.save up to reservation.save(): company and user are set  *)
(* from the form's own, on an edit too.                                     *)
ReservationForm_save(instance, company, user) ==
    [instance EXCEPT !.company = company, !.user = user]

(* Reservation.save: full_clean(), then the write *)
Reservation_save(self, db, rms, t, pk) ==
    LET e == Reservation_clean(self, db, rms, t)
    IN  [error |-> e, db |-> IF e = "ok" THEN Written(self, db, pk) ELSE db]

(* The answer to a request.  A form that is not valid is rendered again    *)
(* with the data that was posted; an exception no view catches ends the     *)
(* request with a 500.                                                      *)
NoData ==
    [meeting_room |-> NoneRef, start_time |-> NoneTime, end_time |-> NoneTime,
     participant_count |-> 0]

Response(op, outcome, field_error, form_error, model_error) ==
    [op |-> op, outcome |-> outcome, field_error |-> field_error,
     form_error |-> form_error, model_error |-> model_error, data |-> NoData]

FormResponse(op, outcome, v, data) ==
    [Response(op, outcome, v.field_error, v.form_error, v.model_error)
        EXCEPT !.data = IF outcome = "invalid" THEN data ELSE @]

Row(pk) == CHOOSE r \in reservations : r.pk = pk

Pks == {r.pk : r \in reservations}

----------------------------------------------------------------------------
(* The views, one request at a time *)

(* ReservationCreateView, POST *)
ReservationCreateView(u, data) ==
    /\ nextPk <= MaxReservations
    /\ LET company == UserProfile[u].company
           v == ReservationForm_is_valid(company, data, NewReservation,
                                         reservations, rooms, now)
           s == Reservation_save(ReservationForm_save(v.instance, company, u),
                                 reservations, rooms, now, nextPk)
       IN  IF v.model_error \notin ValidationErrors \cup {"ok"}
           THEN /\ response' = FormResponse("create", "crash", v, data)
                /\ UNCHANGED <<reservations, nextPk>>
           ELSE IF ~v.valid
           THEN /\ response' = FormResponse("create", "invalid", v, data)
                /\ UNCHANGED <<reservations, nextPk>>
           ELSE IF s.error # "ok"
           THEN /\ response' = Response("create", "crash", "ok", "ok", s.error)
                /\ UNCHANGED <<reservations, nextPk>>
           ELSE /\ response' = FormResponse("create", "ok", v, data)
                /\ reservations' = s.db
                /\ nextPk' = nextPk + 1
    /\ UNCHANGED <<now, rooms, configs, workers>>

(* ReservationUpdateView, POST *)
ReservationUpdateView(u, pk, data) ==
    /\ pk \in Pks
    /\ LET reservation == Row(pk)
           company == UserProfile[u].company
           v == ReservationForm_is_valid(company, data, reservation,
                                         reservations, rooms, now)
           s == Reservation_save(ReservationForm_save(v.instance, company, u),
                                 reservations, rooms, now, nextPk)
       IN  IF ~is_company_admin(u) /\ reservation.user # u
           THEN /\ response' = Response("update", "denied", "ok", "ok", "ok")
                /\ UNCHANGED reservations
           ELSE IF ~can_be_cancelled(reservation, now)
           THEN /\ response' = Response("update", "refused", "ok", "ok", "ok")
                /\ UNCHANGED reservations
           ELSE IF v.model_error \notin ValidationErrors \cup {"ok"}
           THEN /\ response' = FormResponse("update", "crash", v, data)
                /\ UNCHANGED reservations
           ELSE IF ~v.valid
           THEN /\ response' = FormResponse("update", "invalid", v, data)
                /\ UNCHANGED reservations
           ELSE IF s.error # "ok"
           THEN /\ response' = Response("update", "crash", "ok", "ok", s.error)
                /\ UNCHANGED reservations
           ELSE /\ response' = FormResponse("update", "ok", v, data)
                /\ reservations' = s.db
    /\ UNCHANGED <<now, nextPk, rooms, configs, workers>>

(* MeetingRoomUpdateView, POST: the form's capacity and is_available are    *)
(* written to the room; MeetingRoom.clean turns down a capacity that is not *)
(* positive.  The reservations of the room are not looked at.               *)
MeetingRoomUpdateView(u, meeting_room, capacity, is_available) ==
    /\ meeting_room \in DOMAIN rooms
    /\ IF \/ ~is_company_admin(u)
          \/ rooms[meeting_room].company # UserProfile[u].company
       THEN /\ response' = Response("room_update", "denied", "ok", "ok", "ok")
            /\ UNCHANGED rooms
       ELSE IF capacity <= 0
       THEN /\ response' = Response("room_update", "invalid", "ok", "ok", "InvalidCapacity")
            /\ UNCHANGED rooms
       ELSE /\ response' = Response("room_update", "ok", "ok", "ok", "ok")
            /\ rooms' = [rooms EXCEPT ![meeting_room].capacity = capacity,
                                      ![meeting_room].is_available = is_available]
    /\ UNCHANGED <<now, reservations, nextPk, configs, workers>>

(* A wrong list of statuses: a reservation in use does not keep its room *)
MeetingRoomDeleteView_statuses_without_in_use == {STATUS_PENDING, STATUS_CONFIRMED}

(* The statuses of the active_reservations query of MeetingRoomDeleteView *)
MeetingRoomDeleteView_active_statuses ==
    {STATUS_PENDING, STATUS_CONFIRMED, STATUS_IN_USE}

(* MeetingRoomDeleteView, POST: dispatch checks the permission and the      *)
(* active reservations; the delete cascades to the reservations of the room *)
MeetingRoomDeleteView(u, meeting_room) ==
    /\ meeting_room \in DOMAIN rooms
    /\ LET active_reservations ==
               \E r \in reservations :
                   /\ r.meeting_room = meeting_room
                   /\ r.status \in MeetingRoomDeleteView_active_statuses
       IN  IF \/ ~is_company_admin(u)
              \/ rooms[meeting_room].company # UserProfile[u].company
           THEN /\ response' = Response("room_delete", "denied", "ok", "ok", "ok")
                /\ UNCHANGED <<rooms, reservations>>
           ELSE IF active_reservations
           THEN /\ response' = Response("room_delete", "refused", "ok", "ok", "ok")
                /\ UNCHANGED <<rooms, reservations>>
           ELSE /\ response' = Response("room_delete", "ok", "ok", "ok", "ok")
                /\ rooms' = [m \in DOMAIN rooms \ {meeting_room} |-> rooms[m]]
                /\ reservations' = {r \in reservations : r.meeting_room # meeting_room}
    /\ UNCHANGED <<now, nextPk, configs, workers>>

(* ReservationDetailView, GET: the page shows the reservation *)
ReservationDetailView(u, pk) ==
    /\ pk \in Pks
    /\ LET reservation == Row(pk)
       IN  IF ~is_company_admin(u) /\ reservation.user # u
           THEN response' = Response("detail", "denied", "ok", "ok", "ok")
           ELSE response' = [Response("detail", "ok", "ok", "ok", "ok") EXCEPT !.data =
                                [meeting_room |-> reservation.meeting_room,
                                 start_time |-> reservation.start_time,
                                 end_time |-> reservation.end_time,
                                 participant_count |-> reservation.participant_count]]
    /\ UNCHANGED <<now, reservations, nextPk, rooms, configs, workers>>

(* reservation_cancel, POST *)
reservation_cancel(u, pk) ==
    /\ pk \in Pks
    /\ LET reservation == Row(pk)
           s == Reservation_save([reservation EXCEPT !.status = STATUS_CANCELLED],
                                 reservations, rooms, now, nextPk)
       IN  IF ~is_company_admin(u) /\ reservation.user # u
           THEN /\ response' = Response("cancel", "denied", "ok", "ok", "ok")
                /\ UNCHANGED reservations
           ELSE IF ~can_be_cancelled(reservation, now)
           THEN /\ response' = Response("cancel", "refused", "ok", "ok", "ok")
                /\ UNCHANGED reservations
           ELSE IF s.error # "ok"
           THEN /\ response' = Response("cancel", "crash", "ok", "ok", s.error)
                /\ UNCHANGED reservations
           ELSE /\ response' = Response("cancel", "ok", "ok", "ok", "ok")
                /\ reservations' = s.db
    /\ UNCHANGED <<now, nextPk, rooms, configs, workers>>

(* The clock moves on between requests *)
Tick ==
    /\ now < MaxTicks * MinDurationSeconds
    /\ now' = now + MinDurationSeconds
    /\ UNCHANGED <<reservations, nextPk, rooms, configs, response, workers>>

(* ReservationStatusUpdateForm.__init__: the choices of the status field *)
ReservationStatusUpdateForm_choices(current_status) ==
    IF current_status = STATUS_PENDING
    THEN {STATUS_CONFIRMED, STATUS_REJECTED, STATUS_CANCELLED}
    ELSE IF current_status = STATUS_CONFIRMED
    THEN {STATUS_IN_USE, STATUS_CANCELLED}
    ELSE IF current_status = STATUS_IN_USE
    THEN {STATUS_COMPLETED}
    ELSE {current_status}

(* ReservationStatusUpdateView, POST: a ModelForm on the one field status *)
ReservationStatusUpdateView(u, pk, status) ==
    /\ pk \in Pks
    /\ LET reservation == Row(pk)
           choice_ok == status \in ReservationStatusUpdateForm_choices(reservation.status)
           inst == IF choice_ok THEN [reservation EXCEPT !.status = status] ELSE reservation
           mc == Reservation_clean(inst, reservations, rooms, now)
           s == Reservation_save(inst, reservations, rooms, now, nextPk)
           field_error == IF choice_ok THEN "ok" ELSE "InvalidChoice"
       IN  IF ~is_company_admin(u)
           THEN /\ response' = Response("status", "denied", "ok", "ok", "ok")
                /\ UNCHANGED reservations
           ELSE IF ~choice_ok \/ mc # "ok"
           THEN /\ response' = Response("status", "invalid", field_error, "ok", mc)
                /\ UNCHANGED reservations
           ELSE IF s.error # "ok"
           THEN /\ response' = Response("status", "crash", "ok", "ok", s.error)
                /\ UNCHANGED reservations
           ELSE /\ response' = Response("status", "ok", "ok", "ok", "ok")
                /\ reservations' = s.db
    /\ UNCHANGED <<now, nextPk, rooms, configs, workers>>

(* QuickReservationForm.__init__: the queryset of the meeting_room field *)
QuickReservationForm_rooms(company, rms) ==
    {m \in DOMAIN rms : rms[m].company = company /\ rms[m].is_available}

QuickReservationForm_conflicting_statuses ==
    {STATUS_PENDING, STATUS_CONFIRMED, STATUS_IN_USE}

(* QuickReservationForm.clean: end_time is start_time plus duration minutes *)
QuickReservationForm_end_time(start_time, duration) == start_time + duration * 60

QuickReservationForm_conflicting(meeting_room, start_time, end_time, db) ==
    filter_overlapping(db, meeting_room, QuickReservationForm_conflicting_statuses,
                       start_time, end_time)

(* form.is_valid() of the quick form: the errors of its fields, of clean() *)
QuickReservationForm_is_valid(company, meeting_room, start_time, duration, db, rms) ==
    LET room_ok == meeting_room \in QuickReservationForm_rooms(company, rms)
        duration_ok == duration >= QuickMinMinutes /\ duration <= QuickMaxMinutes
        end_time == QuickReservationForm_end_time(start_time, duration)
        conflict ==
            /\ room_ok /\ duration_ok
            /\ QuickReservationForm_conflicting(meeting_room, start_time, end_time, db) # {}
    IN  [field_error |-> IF ~room_ok THEN "InvalidChoice"
                         ELSE IF ~duration_ok THEN "InvalidDuration" ELSE "ok",
         form_error |-> IF conflict THEN "TimeConflict" ELSE "ok",
         end_time |-> end_time,
         valid |-> room_ok /\ duration_ok /\ ~conflict]

(* quick_reservation: the status it gives the new reservation *)
quick_reservation_status(config) ==
    IF config.exists /\ (~config.require_approval \/ config.auto_approval)
    THEN STATUS_CONFIRMED
    ELSE STATUS_PENDING

(* quick_reservation, POST *)
quick_reservation(u, meeting_room, start_time, duration) ==
    /\ nextPk <= MaxReservations
    /\ LET company == UserProfile[u].company
           v == QuickReservationForm_is_valid(company, meeting_room, start_time,
                                              duration, reservations, rooms)
           reservation ==
               [pk |-> NonePk, company |-> company, meeting_room |-> meeting_room,
                user |-> u, start_time |-> start_time, end_time |-> v.end_time,
                participant_count |-> 0,
                status |-> quick_reservation_status(configs[company])]
           s == Reservation_save(reservation, reservations, rooms, now, nextPk)
       IN  IF ~v.valid
           THEN /\ response' = Response("quick", "invalid", v.field_error, v.form_error, "ok")
                /\ UNCHANGED <<reservations, nextPk>>
           ELSE IF s.error # "ok"
           THEN /\ response' = Response("quick", "crash", "ok", "ok", s.error)
                /\ UNCHANGED <<reservations, nextPk>>
           ELSE /\ response' = Response("quick", "ok", "ok", "ok", "ok")
                /\ reservations' = s.db
                /\ nextPk' = nextPk + 1
    /\ UNCHANGED <<now, rooms, configs, workers>>

(* ReservationConfigForm.clean *)
ReservationConfigForm_clean(require_approval, auto_approval, min_duration_minutes, max_duration_hours) ==
    IF min_duration_minutes > max_duration_hours * 60 THEN "DurationSettings"
    ELSE IF auto_approval /\ ~require_approval THEN "ApprovalSettings"
    ELSE "ok"

(* reservation_config, POST: the company's row is made if it is absent,     *)
(* whatever the form then says                                              *)
reservation_config(u, require_approval, auto_approval, min_duration_minutes, max_duration_hours) ==
    /\ LET company == UserProfile[u].company
           row == [configs[company] EXCEPT !.exists = TRUE]
           e == ReservationConfigForm_clean(require_approval, auto_approval,
                                            min_duration_minutes, max_duration_hours)
       IN  IF ~is_company_admin(u)
           THEN /\ response' = Response("config", "denied", "ok", "ok", "ok")
                /\ UNCHANGED configs
           ELSE IF e # "ok"
           THEN /\ response' = Response("config", "invalid", "ok", e, "ok")
                /\ configs' = [configs EXCEPT ![company] = row]
           ELSE /\ response' = Response("config", "ok", "ok", "ok", "ok")
                /\ configs' = [configs EXCEPT ![company] =
                                  [exists |-> TRUE, require_approval |-> require_approval,
                                   auto_approval |-> auto_approval,
                                   min_duration_minutes |-> min_duration_minutes,
                                   max_duration_hours |-> max_duration_hours]]
    /\ UNCHANGED <<now, reservations, nextPk, rooms, workers>>

api_conflicting_statuses == {STATUS_PENDING, STATUS_CONFIRMED, STATUS_IN_USE}

(* A wrong query: the reservation being edited is not excluded *)
api_conflicting_without_exclude(meeting_room, start_time, end_time, reservation_id, db) ==
    filter_overlapping(db, meeting_room, api_conflicting_statuses, start_time, end_time)

(* The query of api_check_time_conflict; reservation_id is the reservation  *)
(* being edited, NonePk when the request names none                         *)
api_conflicting(meeting_room, start_time, end_time, reservation_id, db) ==
    LET conflicting == filter_overlapping(db, meeting_room, api_conflicting_statuses,
                                          start_time, end_time)
    IN  IF reservation_id # NonePk
        THEN {r \in conflicting : r.pk # reservation_id}
        ELSE conflicting

(* api_check_time_conflict, GET: the JSON it answers; a room that is not    *)
(* one of the user's company is answered with status 400                    *)
api_check_time_conflict(u, meeting_room, start_time, end_time, reservation_id, db, rms) ==
    LET conflicting == api_conflicting(meeting_room, start_time, end_time,
                                       reservation_id, db)
    IN  IF meeting_room \notin DOMAIN rms
           \/ rms[meeting_room].company # UserProfile[u].company
        THEN [error |-> TRUE, is_conflicting |-> FALSE, conflicting_count |-> 0]
        ELSE [error |-> FALSE, is_conflicting |-> conflicting # {},
              conflicting_count |-> Cardinality(conflicting)]

(* api_check_time_conflict, GET, as a request: the JSON it answers, with    *)
(* the parameters it was asked with.  It issues two queries, exists() and   *)
(* count(), and writes nothing.                                             *)
api_check_time_conflict_view(u, meeting_room, start_time, end_time, reservation_id) ==
    /\ LET json == api_check_time_conflict(u, meeting_room, start_time, end_time,
                                           reservation_id, reservations, rooms)
       IN  response' =
               Response("check_conflict", IF json.error THEN "error" ELSE "ok",
                        "ok", "ok", "ok")
               @@ [meeting_room |-> meeting_room, start_time |-> start_time,
                   end_time |-> end_time, reservation_id |-> reservation_id,
                   is_conflicting |-> json.is_conflicting,
                   conflicting_count |-> json.conflicting_count]
    /\ UNCHANGED <<now, reservations, nextPk, rooms, configs, workers>>

----------------------------------------------------------------------------
(* get_available_time_slots.  A date is a number of days after the first    *)
(* day of the model; an instant is a number of seconds after the midnight   *)
(* that begins the first day.                                               *)

(* datetime.combine(date, datetime.min.time()) *)
start_of_day(date) == date * 86400

(* datetime.combine(date, datetime.max.time()): 23:59:59.999999.  Instants  *)
(* are whole seconds, so start_time__lt=end_of_day is start_time <= the     *)
(* last second of the day.                                                  *)
end_of_day(date) == date * 86400 + 86399

(* datetime.combine(date, time(9, 0)) and datetime.combine(date, time(18, 0)) *)
work_start(date) == date * 86400 + 9 * 3600

work_end(date) == date * 86400 + 18 * 3600

(* The evaluation of timezone.time, where timezone is django.utils.timezone. *)
(* That module imports datetime, timedelta, timezone and tzinfo from        *)
(* datetime, and not time: the lookup raises AttributeError.  No file of    *)
(* the source tree fixes the Django the application runs on, so the model   *)
(* also follows the function where the name resolves to datetime.time.      *)
timezone_time == {"AttributeError", "datetime.time"}

(* A wrong list of statuses: a pending reservation leaves its time free *)
slots_statuses_without_pending == {STATUS_CONFIRMED, STATUS_IN_USE}

slots_statuses == {STATUS_PENDING, STATUS_CONFIRMED, STATUS_IN_USE}

(* The reservations of the day: Reservation.objects.filter(meeting_room=..., *)
(* start_time__lt=end_of_day, end_time__gt=start_of_day, status__in=[...])  *)
slots_reservations(db, meeting_room, date) ==
    {r \in db :
        /\ r.meeting_room = meeting_room
        /\ r.start_time <= end_of_day(date)
        /\ r.end_time > start_of_day(date)
        /\ r.status \in slots_statuses}

(* .order_by('start_time'): the orders the database may answer in; rows of  *)
(* the same start_time come in any order                                    *)
order_by_start_time(rs) ==
    {o \in [1..Cardinality(rs) -> rs] :
        /\ \A i, j \in 1..Cardinality(rs) : i # j => o[i] # o[j]
        /\ \A i, j \in 1..Cardinality(rs) : i < j => o[i].start_time <= o[j].start_time}

(* An entry of available_slots; slot_duration is in minutes *)
Slot(start, end) == [start |-> start, end |-> end, duration |-> (end - start) \div 60]

(* A wrong update of the cursor: the end of the reservation, also when the  *)
(* cursor is already later                                                  *)
next_current_time_without_max(current_time, reservation) == reservation.end_time

(* current_time = max(current_time, reservation.end_time) *)
next_current_time(current_time, reservation) ==
    IF current_time >= reservation.end_time THEN current_time ELSE reservation.end_time

(* The loop over the reservations, from the i-th on *)
RECURSIVE available_slots_loop(_, _, _, _, _)
available_slots_loop(ordered, i, current_time, duration_minutes, available_slots) ==
    IF i > Len(ordered)
    THEN [available_slots |-> available_slots, current_time |-> current_time]
    ELSE LET reservation == ordered[i]
             free == /\ current_time < reservation.start_time
                     /\ reservation.start_time - current_time >= duration_minutes * 60
         IN  available_slots_loop(ordered, i + 1,
                 next_current_time(current_time, reservation), duration_minutes,
                 IF free
                 THEN Append(available_slots, Slot(current_time, reservation.start_time))
                 ELSE available_slots)

(* get_available_time_slots(meeting_room, date, duration_minutes), given    *)
(* the rows of its query in the order the database answered                 *)
get_available_time_slots(meeting_room, date, duration_minutes, ordered) ==
    IF meeting_room = NoneRef THEN <<>>
    ELSE LET loop == available_slots_loop(ordered, 1, work_start(date),
                                          duration_minutes, <<>>)
         IN  IF /\ loop.current_time < work_end(date)
                /\ work_end(date) - loop.current_time >= duration_minutes * 60
             THEN Append(loop.available_slots, Slot(loop.current_time, work_end(date)))
             ELSE loop.available_slots

(* strftime('%Y-%m-%dT%H:%M'): the seconds are dropped *)
strftime_minutes(t) == t - (t % 60)

(* api_available_slots, GET.  A room that is not an available room of the   *)
(* user's company is answered with no slots; of the exceptions only         *)
(* DoesNotExist, ValueError and TypeError are caught.                       *)
api_available_slots(u, meeting_room, date, duration) ==
    /\ LET found == /\ meeting_room \in DOMAIN rooms
                    /\ rooms[meeting_room].company = UserProfile[u].company
                    /\ rooms[meeting_room].is_available
           asked == [meeting_room |-> meeting_room, date |-> date, duration |-> duration]
       IN  IF ~found
           THEN response' = Response("slots", "ok", "ok", "ok", "DoesNotExist")
                            @@ asked @@ [slots |-> <<>>, formatted_slots |-> <<>>]
           ELSE \E time \in timezone_time :
                \E ordered \in order_by_start_time(
                                  slots_reservations(reservations, meeting_room, date)) :
                   IF time = "AttributeError"
                   THEN response' = Response("slots", "crash", "ok", "ok", "AttributeError")
                                    @@ asked @@ [slots |-> <<>>, formatted_slots |-> <<>>]
                   ELSE LET available_slots ==
                                get_available_time_slots(meeting_room, date, duration, ordered)
                        IN  response' =
                                Response("slots", "ok", "ok", "ok", "ok") @@ asked
                                @@ [slots |-> available_slots,
                                    formatted_slots |->
                                        [k \in DOMAIN available_slots |->
                                            [start |-> strftime_minutes(available_slots[k].start),
                                             end |-> strftime_minutes(available_slots[k].end),
                                             duration |-> available_slots[k].duration]]]
    /\ UNCHANGED <<now, reservations, nextPk, rooms, configs, workers>>

----------------------------------------------------------------------------
(* The requests the model posts *)

Clock == {k * MinDurationSeconds : k \in 0..MaxTicks}

(* A posted window: a start on the clock and a length *)
Windows(m, lengths, counts) ==
    {[meeting_room |-> m, start_time |-> s, end_time |-> s + d, participant_count |-> c] :
        s \in Clock, d \in lengths, c \in counts}

(* The scheduling requests: bookings of room a1 by the users of company A,  *)
(* of the minimum length and of twice the minimum                           *)
SchedUsers == {"admin_a"}
SchedDrafts == Windows("a1", {MinDurationSeconds, 2 * MinDurationSeconds}, {0})
SchedDurations == {15, 30}

Init ==
    /\ now = 0
    /\ reservations = {}
    /\ nextPk = 1
    /\ rooms = InitRooms
    /\ configs = [c \in {"A", "B"} |-> NoConfig]
    /\ response = Response("none", "ok", "ok", "ok", "ok")
    /\ workers = [w \in {1, 2} |-> [pc |-> "idle"]]

Next ==
    \/ Tick
    \/ \E u \in SchedUsers, data \in SchedDrafts : ReservationCreateView(u, data)
    \/ \E u \in SchedUsers, s \in Clock, d \in SchedDurations :
          quick_reservation(u, "a1", s, d)
    \/ \E u \in SchedUsers, pk \in 1..MaxReservations, data \in SchedDrafts :
          ReservationUpdateView(u, pk, data)
    \/ \E u \in SchedUsers, pk \in 1..MaxReservations : reservation_cancel(u, pk)
    \/ \E u \in SchedUsers, pk \in 1..MaxReservations, status \in STATUS_CHOICES :
          ReservationStatusUpdateView(u, pk, status)

Spec == Init /\ [][Next]_vars

----------------------------------------------------------------------------
(* Approval: the company's configuration is edited between bookings *)

NextApproval ==
    \/ \E ra \in BOOLEAN, aa \in BOOLEAN :
          reservation_config("admin_a", ra, aa,
                             DefaultMinDurationMinutes, DefaultMaxDurationHours)
    \/ \E data \in SchedDrafts : ReservationCreateView("admin_a", data)
    \/ \E s \in Clock, d \in SchedDurations : quick_reservation("admin_a", "a1", s, d)

SpecApproval == Init /\ [][NextApproval]_vars

----------------------------------------------------------------------------
(* Limits: the company's configuration sets its own duration limits (30 or  *)
(* 90 minutes at least, 1 hour at most) between bookings of 15 minutes, 30  *)
(* minutes and 2 hours                                                      *)

LimitsMinutes == {DefaultMinDurationMinutes, 30, 90}
LimitsHours == {1, DefaultMaxDurationHours}
LimitsDrafts == Windows("a1", {MinDurationSeconds, 2 * MinDurationSeconds, 7200}, {0})

NextLimits ==
    \/ \E mn \in LimitsMinutes, mx \in LimitsHours :
          reservation_config("admin_a", FALSE, FALSE, mn, mx)
    \/ \E data \in LimitsDrafts : ReservationCreateView("admin_a", data)
    \/ \E s \in Clock, d \in SchedDurations : quick_reservation("admin_a", "a1", s, d)

SpecLimits == Init /\ [][NextLimits]_vars

----------------------------------------------------------------------------
(* Tenants: the admin of company B books room b1; the admin of company A    *)
(* and a user of company A then address the reservations by primary key,    *)
(* and try to book room b1 themselves                                       *)

TenantDrafts ==
    Windows("a1", {MinDurationSeconds}, {0}) \cup Windows("b1", {MinDurationSeconds}, {0})

NextTenants ==
    \/ \E u \in {"admin_a", "admin_b"}, data \in Windows("b1", {MinDurationSeconds}, {0}) :
          ReservationCreateView(u, data)
    \/ \E u \in {"admin_a", "admin_b"}, s \in Clock :
          quick_reservation(u, "b1", s, QuickMinMinutes)
    \/ \E u \in {"admin_a", "user_a"}, pk \in 1..MaxReservations :
          ReservationDetailView(u, pk)
    \/ \E pk \in 1..MaxReservations, data \in TenantDrafts :
          ReservationUpdateView("admin_a", pk, data)
    \/ \E u \in {"admin_a", "user_a"}, pk \in 1..MaxReservations :
          reservation_cancel(u, pk)
    \/ \E pk \in 1..MaxReservations, status \in STATUS_CHOICES :
          ReservationStatusUpdateView("admin_a", pk, status)

SpecTenants == Init /\ [][NextTenants]_vars

----------------------------------------------------------------------------
(* Rooms: the admin of company A asks for rooms to be deleted between       *)
(* bookings, cancellations and status updates                               *)

NextRooms ==
    \/ \E data \in SchedDrafts : ReservationCreateView("admin_a", data)
    \/ \E pk \in 1..MaxReservations : reservation_cancel("admin_a", pk)
    \/ \E pk \in 1..MaxReservations, status \in STATUS_CHOICES :
          ReservationStatusUpdateView("admin_a", pk, status)
    \/ \E m \in {"a1", "b1"} : MeetingRoomDeleteView("admin_a", m)

SpecRooms == Init /\ [][NextRooms]_vars

----------------------------------------------------------------------------
(* Validation: windows of every kind are posted (inverted, ten minutes, the *)
(* minimum, twice the minimum, over the maximum), with and without a        *)
(* participant count over the capacity of the room, and for a room of       *)
(* another company                                                          *)

ValidationLengths ==
    {0 - MinDurationSeconds, 600, MinDurationSeconds, 2 * MinDurationSeconds,
     MaxDurationSeconds + MinDurationSeconds}

(* Room b1 is another company's: not a choice of the form *)
ValidationDrafts ==
    Windows("a1", ValidationLengths, {0, 3}) \cup Windows("b1", {MinDurationSeconds}, {0})

ValidationDurations == {10, 15, 30, 495}

NextValidation ==
    \/ Tick
    \/ \E s \in Clock, d \in ValidationDurations : quick_reservation("admin_a", "a1", s, d)
    \/ \E pk \in 1..MaxReservations, data \in ValidationDrafts :
          ReservationUpdateView("admin_a", pk, data)
    \/ \E data \in ValidationDrafts : ReservationCreateView("admin_a", data)
    \/ \E pk \in 1..MaxReservations : reservation_cancel("admin_a", pk)

SpecValidation == Init /\ [][NextValidation]_vars

----------------------------------------------------------------------------
(* Times: windows at the edges of the time checks are posted for room a1:   *)
(* inverted, of length zero, ten minutes, exactly the minimum, exactly the  *)
(* maximum, over the maximum; the clock moves, so that a start can be past  *)

TimesLengths ==
    {0 - MinDurationSeconds, 0, 600, MinDurationSeconds, MaxDurationSeconds,
     MaxDurationSeconds + MinDurationSeconds}

TimesDrafts == Windows("a1", TimesLengths, {0})

TimesDurations == {10, QuickMinMinutes, QuickMaxMinutes, 495}

NextTimes ==
    \/ Tick
    \/ \E data \in TimesDrafts : ReservationCreateView("admin_a", data)
    \/ \E pk \in 1..MaxReservations, data \in TimesDrafts :
          ReservationUpdateView("admin_a", pk, data)
    \/ \E s \in Clock, d \in TimesDurations : quick_reservation("admin_a", "a1", s, d)

SpecTimes == Init /\ [][NextTimes]_vars

----------------------------------------------------------------------------
(* Requests served at the same time by two worker processes.  No view opens *)
(* a transaction or takes a lock, so the queries of one request interleave  *)
(* with those of another: form.is_valid() reads, full_clean() inside        *)
(* Reservation.save reads again, super().save() writes.                     *)

Workers == {1, 2}

Idle == [pc |-> "idle"]

InFlight == Cardinality({w \in Workers : workers[w].pc # "idle"})

(* ReservationCreateView up to form.is_valid() *)
create_is_valid(w, u, data) ==
    /\ workers[w].pc = "idle"
    /\ nextPk + InFlight <= MaxReservations
    /\ LET company == UserProfile[u].company
           v == ReservationForm_is_valid(company, data, NewReservation,
                                         reservations, rooms, now)
       IN  IF v.model_error \notin ValidationErrors \cup {"ok"}
           THEN /\ response' = FormResponse("create", "crash", v, data)
                /\ UNCHANGED workers
           ELSE IF ~v.valid
           THEN /\ response' = FormResponse("create", "invalid", v, data)
                /\ UNCHANGED workers
           ELSE /\ workers' = [workers EXCEPT ![w] =
                       [pc |-> "full_clean", op |-> "create",
                        instance |-> ReservationForm_save(v.instance, company, u)]]
                /\ UNCHANGED response
    /\ UNCHANGED <<now, reservations, nextPk, rooms, configs>>

(* quick_reservation up to form.is_valid() and the choice of the status *)
quick_is_valid(w, u, meeting_room, start_time, duration) ==
    /\ workers[w].pc = "idle"
    /\ nextPk + InFlight <= MaxReservations
    /\ LET company == UserProfile[u].company
           v == QuickReservationForm_is_valid(company, meeting_room, start_time,
                                              duration, reservations, rooms)
           reservation ==
               [pk |-> NonePk, company |-> company, meeting_room |-> meeting_room,
                user |-> u, start_time |-> start_time, end_time |-> v.end_time,
                participant_count |-> 0,
                status |-> quick_reservation_status(configs[company])]
       IN  IF ~v.valid
           THEN /\ response' = Response("quick", "invalid", v.field_error, v.form_error, "ok")
                /\ UNCHANGED workers
           ELSE /\ workers' = [workers EXCEPT ![w] =
                       [pc |-> "full_clean", op |-> "quick", instance |-> reservation]]
                /\ UNCHANGED response
    /\ UNCHANGED <<now, reservations, nextPk, rooms, configs>>

(* ReservationStatusUpdateView up to form.is_valid(): get_object() reads    *)
(* the row, the form offers the choices of the status it read and           *)
(* validates the instance; form.save() then saves the instance it read,     *)
(* with the new status                                                      *)
status_is_valid(w, u, pk, status) ==
    /\ workers[w].pc = "idle"
    /\ pk \in Pks
    /\ LET reservation == Row(pk)
           choice_ok == status \in ReservationStatusUpdateForm_choices(reservation.status)
           inst == IF choice_ok THEN [reservation EXCEPT !.status = status] ELSE reservation
           mc == Reservation_clean(inst, reservations, rooms, now)
           field_error == IF choice_ok THEN "ok" ELSE "InvalidChoice"
       IN  IF ~is_company_admin(u)
           THEN /\ response' = Response("status", "denied", "ok", "ok", "ok")
                /\ UNCHANGED workers
           ELSE IF ~choice_ok \/ mc # "ok"
           THEN /\ response' = Response("status", "invalid", field_error, "ok", mc)
                /\ UNCHANGED workers
           ELSE /\ workers' = [workers EXCEPT ![w] =
                       [pc |-> "full_clean", op |-> "status", instance |-> inst]]
                /\ UNCHANGED response
    /\ UNCHANGED <<now, reservations, nextPk, rooms, configs>>

(* reservation_cancel up to reservation.status = STATUS_CANCELLED: the row  *)
(* is read, the permission and can_be_cancelled() are checked on what was   *)
(* read                                                                     *)
cancel_can_be_cancelled(w, u, pk) ==
    /\ workers[w].pc = "idle"
    /\ pk \in Pks
    /\ LET reservation == Row(pk)
       IN  IF ~is_company_admin(u) /\ reservation.user # u
           THEN /\ response' = Response("cancel", "denied", "ok", "ok", "ok")
                /\ UNCHANGED workers
           ELSE IF ~can_be_cancelled(reservation, now)
           THEN /\ response' = Response("cancel", "refused", "ok", "ok", "ok")
                /\ UNCHANGED workers
           ELSE /\ workers' = [workers EXCEPT ![w] =
                       [pc |-> "full_clean", op |-> "cancel",
                        instance |-> [reservation EXCEPT !.status = STATUS_CANCELLED]]]
                /\ UNCHANGED response
    /\ UNCHANGED <<now, reservations, nextPk, rooms, configs>>

(* Reservation.save: self.full_clean() *)
save_full_clean(w) ==
    /\ workers[w].pc = "full_clean"
    /\ LET e == Reservation_clean(workers[w].instance, reservations, rooms, now)
       IN  IF e # "ok"
           THEN /\ response' = Response(workers[w].op, "crash", "ok", "ok", e)
                /\ workers' = [workers EXCEPT ![w] = Idle]
           ELSE /\ workers' = [workers EXCEPT ![w].pc = "write"]
                /\ UNCHANGED response
    /\ UNCHANGED <<now, reservations, nextPk, rooms, configs>>

(* Reservation.save: super().save(), and the redirect *)
save_write(w) ==
    /\ workers[w].pc = "write"
    /\ reservations' = Written(workers[w].instance, reservations, nextPk)
    /\ nextPk' = IF workers[w].instance.pk = NonePk THEN nextPk + 1 ELSE nextPk
    /\ response' = Response(workers[w].op, "ok", "ok", "ok", "ok")
    /\ workers' = [workers EXCEPT ![w] = Idle]
    /\ UNCHANGED <<now, rooms, configs>>

NextRace ==
    \/ \E w \in Workers, data \in SchedDrafts : create_is_valid(w, "admin_a", data)
    \/ \E w \in Workers, s \in Clock, d \in SchedDurations :
          quick_is_valid(w, "admin_a", "a1", s, d)
    \/ \E w \in Workers : save_full_clean(w)
    \/ \E w \in Workers : save_write(w)

SpecRace == Init /\ [][NextRace]_vars

----------------------------------------------------------------------------
(* Availability: the bookings of a day and of the night after it, posted    *)
(* by concurrent requests, and the two read-only interfaces.  A window is   *)
(* given in hours after the first midnight.                                 *)

Hours(m, from, to) ==
    [meeting_room |-> m, start_time |-> from * 3600, end_time |-> to * 3600,
     participant_count |-> 0]

SlotDrafts ==
    {Hours("a1", 7, 8), Hours("a1", 10, 12), Hours("a1", 12, 13), Hours("a1", 12, 14),
     Hours("a1", 17, 19), Hours("a1", 19, 20), Hours("a1", 20, 23), Hours("a1", 22, 26)}

SlotDates == {0, 1}
SlotDurations == {60, 180}
CheckWindows == {Hours("a1", 0, 24), Hours("a1", 12, 13), Hours("a1", 13, 19)}

NextSlots ==
    \/ \E w \in Workers, data \in SlotDrafts : create_is_valid(w, "admin_a", data)
    \/ \E w \in Workers : save_full_clean(w)
    \/ \E w \in Workers : save_write(w)
    \/ \E pk \in 1..MaxReservations : reservation_cancel("admin_a", pk)
    \/ \E u \in {"admin_a", "admin_b"}, date \in SlotDates, duration \in SlotDurations :
          api_available_slots(u, "a1", date, duration)
    \/ \E u \in {"admin_a", "admin_b"}, d \in CheckWindows,
          reservation_id \in {NonePk} \cup (1..MaxReservations) :
          api_check_time_conflict_view(u, "a1", d.start_time, d.end_time, reservation_id)

SpecSlots == Init /\ [][NextSlots]_vars

----------------------------------------------------------------------------
(* Status changes by concurrent requests: two company admins, or the owner  *)
(* and a company admin, work on the same reservation.                       *)

StatusRaceDrafts == Windows("a1", {MinDurationSeconds}, {0})

NextStatusRace ==
    \/ Tick
    \/ \E data \in StatusRaceDrafts : ReservationCreateView("user_a", data)
    \/ \E w \in Workers, pk \in 1..MaxReservations, status \in STATUS_CHOICES :
          status_is_valid(w, "admin_a", pk, status)
    \/ \E w \in Workers, u \in {"user_a", "admin_a"}, pk \in 1..MaxReservations :
          cancel_can_be_cancelled(w, u, pk)
    \/ \E w \in Workers : save_full_clean(w)
    \/ \E w \in Workers : save_write(w)

SpecStatusRace == Init /\ [][NextStatusRace]_vars

----------------------------------------------------------------------------
(* Capacity: a company admin changes the capacity of a room that has        *)
(* reservations.                                                            *)

CapacityDrafts == Windows("a1", {MinDurationSeconds}, {0, 2})
CapacityChoices == {0, 1, 2}

NextCapacity ==
    \/ Tick
    \/ \E data \in CapacityDrafts : ReservationCreateView("user_a", data)
    \/ \E capacity \in CapacityChoices :
          MeetingRoomUpdateView("admin_a", "a1", capacity, TRUE)
    \/ \E u \in {"user_a", "admin_a"}, pk \in 1..MaxReservations : reservation_cancel(u, pk)

SpecCapacity == Init /\ [][NextCapacity]_vars

----------------------------------------------------------------------------
(* Owners: a user books, the user and a company admin edit the booking. *)

NextOwner ==
    \/ Tick
    \/ \E data \in SchedDrafts : ReservationCreateView("user_a", data)
    \/ \E u \in {"user_a", "admin_a"}, pk \in 1..MaxReservations, data \in SchedDrafts :
          ReservationUpdateView(u, pk, data)
    \/ \E u \in {"user_a", "admin_a"}, pk \in 1..MaxReservations : ReservationDetailView(u, pk)

SpecOwner == Init /\ [][NextOwner]_vars

----------------------------------------------------------------------------
(* Properties *)

Blocking(r) == r.status \in {STATUS_PENDING, STATUS_CONFIRMED, STATUS_IN_USE}

Overlap(a, b) == a.start_time < b.end_time /\ b.start_time < a.end_time

(* C1: no two stored reservations of the same room that are both in a       *)
(* blocking status (pending, confirmed, in_use) have overlapping half-open  *)
(* windows, after any sequence of requests run one at a time.               *)
C1_NoOverlappingBlocking ==
    \A a \in reservations : \A b \in reservations :
        (/\ a.pk # b.pk
         /\ a.meeting_room = b.meeting_room
         /\ Blocking(a) /\ Blocking(b))
        => ~Overlap(a, b)

(* Two blocking reservations share a room, back to back, and the last       *)
(* request was turned down for a time conflict.                             *)
C1_Witness ==
    /\ \E a \in reservations : \E b \in reservations :
          /\ a.pk # b.pk /\ a.meeting_room = b.meeting_room
          /\ Blocking(a) /\ Blocking(b)
          /\ a.end_time = b.start_time
    /\ response.outcome = "invalid"
    /\ response.form_error = "TimeConflict"

Terminal == {STATUS_COMPLETED, STATUS_CANCELLED, STATUS_REJECTED}

(* C3: completed, cancelled and rejected are terminal: no request changes   *)
(* the status of a reservation that is in one of them.                      *)
C3_TerminalStatusesStay ==
    [][\A r \in reservations : \A q \in reservations' :
          (r.pk = q.pk /\ r.status \in Terminal) => q.status = r.status]_vars

(* Every stored reservation is terminal and a status update was just        *)
(* refused for its choice of status.                                        *)
C3_Witness ==
    /\ reservations # {}
    /\ \A r \in reservations : r.status \in Terminal
    /\ response.op = "status"
    /\ response.field_error = "InvalidChoice"

(* The transitions of the specification's table *)
PermittedTransitions ==
    {<<STATUS_PENDING, STATUS_CONFIRMED>>, <<STATUS_PENDING, STATUS_REJECTED>>,
     <<STATUS_PENDING, STATUS_CANCELLED>>, <<STATUS_CONFIRMED, STATUS_IN_USE>>,
     <<STATUS_CONFIRMED, STATUS_CANCELLED>>, <<STATUS_IN_USE, STATUS_COMPLETED>>}

StatusOf(db, pk) == (CHOOSE r \in db : r.pk = pk).status

(* C2: a conflict check and the write that follows it are one atomic unit:  *)
(* whatever the interleaving of two requests, a write never stores a        *)
(* blocking reservation that overlaps a stored blocking reservation of the  *)
(* same room.                                                               *)
C2_AtMostOneWriterWins ==
    [][\A q \in reservations' \ reservations : \A r \in reservations :
          (q.meeting_room = r.meeting_room /\ Blocking(q) /\ Blocking(r))
          => ~Overlap(q, r)]_vars

(* C4: a status update (from, to) that is not in the table is turned down   *)
(* with an error and the stored status stays from; it is never answered as  *)
(* if it had succeeded.                                                     *)
C4_UnlistedTransitionRejected ==
    [][\A u \in SchedUsers, pk \in 1..MaxReservations, status \in STATUS_CHOICES :
          (/\ response'.op = "status"
           /\ ReservationStatusUpdateView(u, pk, status)
           /\ <<StatusOf(reservations, pk), status>> \notin PermittedTransitions)
          => /\ response'.outcome \in {"invalid", "denied"}
             /\ StatusOf(reservations', pk) = StatusOf(reservations, pk)]_vars

(* C5: the status update permits exactly the transitions of the table and   *)
(* persists the new status when a company admin requests one of them.       *)
C5_PermittedTransitionsPersist ==
    [][\A u \in SchedUsers, pk \in 1..MaxReservations, status \in STATUS_CHOICES :
          (ReservationStatusUpdateView(u, pk, status) /\ is_company_admin(u))
          => /\ <<StatusOf(reservations, pk), status>> \in PermittedTransitions
                    => StatusOf(reservations', pk) = status
             /\ StatusOf(reservations', pk) # StatusOf(reservations, pk)
                    => <<StatusOf(reservations, pk), StatusOf(reservations', pk)>>
                           \in PermittedTransitions]_vars

(* C6: on every creation path a new reservation is confirmed when the       *)
(* company's ReservationConfig has require_approval = false or              *)
(* auto_approval = true, and pending otherwise.                             *)
C6_InitialStatusFollowsConfig ==
    [][\A q \in reservations' :
          q.pk \notin Pks
          => q.status =
                IF /\ configs[q.company].exists
                   /\ (~configs[q.company].require_approval
                       \/ configs[q.company].auto_approval)
                THEN STATUS_CONFIRMED
                ELSE STATUS_PENDING]_vars

(* A posted window as the unsaved instance that Reservation.clean sees *)
Draft(d) ==
    [NewReservation EXCEPT !.meeting_room = d.meeting_room,
                           !.start_time = d.start_time,
                           !.end_time = d.end_time,
                           !.participant_count = d.participant_count]

(* The windows that touch r: they start when r ends, or end when r starts *)
Touching(r) ==
    {[meeting_room |-> r.meeting_room, start_time |-> r.end_time,
      end_time |-> r.end_time + l, participant_count |-> 0] : l \in ValidationLengths}
    \cup
    {[meeting_room |-> r.meeting_room, start_time |-> r.start_time - l,
      end_time |-> r.start_time, participant_count |-> 0] : l \in ValidationLengths}

(* The windows in r's room that overlap r *)
Overlapping(r) ==
    {d \in Windows(r.meeting_room, {MinDurationSeconds, 2 * MinDurationSeconds}, {0}) :
        Overlap(r, d)}

(* C7: touching windows do not conflict: no conflict check reports a        *)
(* blocking reservation for a draft of the same room that starts when the   *)
(* reservation ends or ends when it starts.                                 *)
C7_TouchingWindowsDoNotConflict ==
    \A r \in reservations : \A d \in Touching(r) :
        Blocking(r)
        => /\ r \notin Reservation_conflicting(Draft(d), reservations)
           /\ r \notin ReservationForm_conflicting(d, NewReservation, reservations)
           /\ r \notin QuickReservationForm_conflicting(d.meeting_room, d.start_time,
                                                        d.end_time, reservations)
           /\ r \notin api_conflicting(d.meeting_room, d.start_time, d.end_time,
                                       NonePk, reservations)

(* Two blocking reservations of a room are stored back to back, the second  *)
(* just accepted.                                                           *)
C7_Witness ==
    /\ \E a \in reservations : \E b \in reservations :
          /\ a.pk < b.pk /\ a.meeting_room = b.meeting_room
          /\ Blocking(a) /\ Blocking(b)
          /\ (a.end_time = b.start_time \/ b.end_time = a.start_time)
    /\ response.op \in {"create", "quick"}
    /\ response.outcome = "ok"

(* C8: the blocking statuses are exactly pending, confirmed and in_use: a   *)
(* conflict check reports a reservation that overlaps the draft exactly     *)
(* when its status is one of the three, so a cancelled, rejected or         *)
(* completed reservation never has a draft turned down.                     *)
C8_OnlyBlockingStatusesBlock ==
    \A r \in reservations : \A d \in Overlapping(r) :
        LET blocks == r.status \in {STATUS_PENDING, STATUS_CONFIRMED, STATUS_IN_USE}
        IN  /\ r \in Reservation_conflicting(Draft(d), reservations) <=> blocks
            /\ r \in ReservationForm_conflicting(d, NewReservation, reservations) <=> blocks
            /\ r \in QuickReservationForm_conflicting(d.meeting_room, d.start_time,
                                                      d.end_time, reservations) <=> blocks
            /\ r \in api_conflicting(d.meeting_room, d.start_time, d.end_time,
                                     NonePk, reservations) <=> blocks

(* A reservation was just accepted over a cancelled, rejected or completed  *)
(* reservation of the same room whose window overlaps its own.              *)
C8_Witness ==
    /\ \E a \in reservations : \E b \in reservations :
          /\ a.pk < b.pk /\ a.meeting_room = b.meeting_room
          /\ a.status \in Terminal /\ Blocking(b)
          /\ Overlap(a, b)
    /\ response.op \in {"create", "quick"}
    /\ response.outcome = "ok"

(* The draft overlaps a blocking reservation of its room other than pk *)
HasConflict(d, pk, db) ==
    \E r \in db :
        /\ r.pk # pk
        /\ r.meeting_room = d.meeting_room
        /\ Blocking(r)
        /\ Overlap(r, d)

RejectedForConflict ==
    /\ response'.outcome = "invalid"
    /\ response'.form_error = "TimeConflict"
    /\ reservations' = reservations

(* C9, as claimed: a create or edit request whose window overlaps a         *)
(* blocking reservation of the same room (other than the one edited) is     *)
(* turned down with the time-conflict error and nothing is written.         *)
C9_OverlapRejectedAsConflict ==
    [][/\ \A pk \in 1..MaxReservations, d \in ValidationDrafts :
             (/\ response'.op = "update"
              /\ HasConflict(d, pk, reservations)
              /\ ReservationUpdateView("admin_a", pk, d))
             => RejectedForConflict
       /\ \A d \in ValidationDrafts :
             (/\ response'.op = "create"
              /\ HasConflict(d, NonePk, reservations)
              /\ ReservationCreateView("admin_a", d))
             => RejectedForConflict
       /\ \A s \in Clock, m \in ValidationDurations :
             LET d == [meeting_room |-> "a1", start_time |-> s,
                       end_time |-> s + m * 60, participant_count |-> 0]
             IN  (/\ response'.op = "quick"
                  /\ HasConflict(d, NonePk, reservations)
                  /\ quick_reservation("admin_a", "a1", s, m))
                 => RejectedForConflict]_vars

(* The draft passes the checks that run before the conflict query *)
PassesTimeChecks(d, t) ==
    /\ d.start_time < d.end_time
    /\ d.start_time >= t
    /\ d.end_time - d.start_time >= MinDurationSeconds
    /\ d.end_time - d.start_time <= MaxDurationSeconds

(* C9, amended: a create, quick-create or admitted edit request for a room  *)
(* the form offers, whose window passes the time-range, non-past and        *)
(* duration checks and overlaps a blocking reservation of the same room     *)
(* (other than the one edited), is turned down with the time-conflict       *)
(* error and nothing is written.                                            *)
C9_CheckedOverlapRejectedAsConflict ==
    [][/\ \A d \in ValidationDrafts :
             (/\ response'.op = "create"
              /\ d.meeting_room \in ReservationForm_rooms("A", rooms)
              /\ PassesTimeChecks(d, now)
              /\ HasConflict(d, NonePk, reservations)
              /\ ReservationCreateView("admin_a", d))
             => RejectedForConflict
       /\ \A pk \in 1..MaxReservations, d \in ValidationDrafts :
             (/\ response'.op = "update"
              /\ d.meeting_room \in ReservationForm_rooms("A", rooms)
              /\ PassesTimeChecks(d, now)
              /\ HasConflict(d, pk, reservations)
              /\ ReservationUpdateView("admin_a", pk, d)
              /\ response'.outcome \notin {"denied", "refused"})
             => RejectedForConflict
       /\ \A s \in Clock, m \in ValidationDurations :
             LET d == [meeting_room |-> "a1", start_time |-> s,
                       end_time |-> s + m * 60, participant_count |-> 0]
             IN  (/\ response'.op = "quick"
                  /\ PassesTimeChecks(d, now)
                  /\ HasConflict(d, NonePk, reservations)
                  /\ quick_reservation("admin_a", "a1", s, m))
                 => RejectedForConflict]_vars

(* An edit was just turned down for a time conflict with another            *)
(* reservation, by the form and by the model.                               *)
C9_Witness ==
    /\ response.op = "update"
    /\ response.outcome = "invalid"
    /\ response.form_error = "TimeConflict"
    /\ response.model_error = "TimeConflict"
    /\ \E r \in reservations :
          /\ Blocking(r)
          /\ r.meeting_room = response.data.meeting_room
          /\ Overlap(r, response.data)

(* The checks of a draft, declaratively *)
CheckFails(check, d, pk, db, rms, t) ==
    CASE check = "range" -> d.start_time >= d.end_time
      [] check = "past" -> d.start_time < t
      [] check = "duration" ->
            \/ d.end_time - d.start_time < MinDurationSeconds
            \/ d.end_time - d.start_time > MaxDurationSeconds
      [] check = "capacity" ->
            /\ d.participant_count # 0
            /\ d.participant_count > rms[d.meeting_room].capacity
      [] check = "conflict" -> HasConflict(d, pk, db)

CheckError(check, d) ==
    CASE check = "range" -> "InvalidTimeRange"
      [] check = "past" -> "PastStart"
      [] check = "duration" ->
            IF d.end_time - d.start_time < MinDurationSeconds
            THEN "DurationTooShort" ELSE "DurationTooLong"
      [] check = "capacity" -> "CapacityExceeded"
      [] check = "conflict" -> "TimeConflict"

(* The error of the first check of the order that the draft fails *)
FirstFailing(order, d, pk, db, rms, t) ==
    LET failing == {i \in 1..Len(order) : CheckFails(order[i], d, pk, db, rms, t)}
    IN  IF failing = {}
        THEN "ok"
        ELSE CheckError(order[CHOOSE i \in failing : \A j \in failing : i <= j], d)

ClaimedOrder == <<"range", "past", "duration", "capacity", "conflict">>

(* The drafts for a room that the form offers to company A *)
OfferedDrafts == {d \in ValidationDrafts : d.meeting_room \in ReservationForm_rooms("A", rooms)}

(* C10: validation runs the checks in the order time range, non-past,       *)
(* duration, capacity, conflict and the error a turned-down draft is        *)
(* answered with is that of the first check it fails, so a draft over the   *)
(* capacity that also overlaps a blocking reservation is answered with the  *)
(* capacity error.                                                          *)
C10_ChecksInClaimedOrder ==
    [][/\ \A d \in OfferedDrafts :
             (/\ response'.op = "create"
              /\ response'.outcome = "invalid"
              /\ response'.data = d
              /\ ReservationCreateView("admin_a", d))
             => response'.form_error
                    = FirstFailing(ClaimedOrder, d, NonePk, reservations, rooms, now)
       /\ \A pk \in 1..MaxReservations, d \in OfferedDrafts :
             (/\ response'.op = "update"
              /\ response'.outcome = "invalid"
              /\ response'.data = d
              /\ ReservationUpdateView("admin_a", pk, d))
             => response'.form_error
                    = FirstFailing(ClaimedOrder, d, pk, reservations, rooms, now)]_vars

(* The posted windows that end at or before their start *)
InvertedDrafts == {d \in TimesDrafts : d.end_time <= d.start_time}

(* C11: a draft with end <= start is turned down by the time-range check,   *)
(* with the time-range error and never with a duration error, by            *)
(* Reservation.clean and by ReservationForm.clean; a request that posts it  *)
(* writes nothing.                                                          *)
C11_InvertedWindowIsTimeRangeError ==
    [][\A d \in InvertedDrafts :
          /\ Reservation_clean(Draft(d), reservations, rooms, now) = "InvalidTimeRange"
          /\ ReservationForm_clean(d, NewReservation, reservations, rooms, now).error
                 = "InvalidTimeRange"
          /\ (response'.op = "create" /\ ReservationCreateView("admin_a", d))
             => /\ response'.form_error = "InvalidTimeRange"
                /\ response'.outcome # "ok"
                /\ reservations' = reservations
          /\ \A pk \in 1..MaxReservations :
                (/\ response'.op = "update"
                 /\ ReservationUpdateView("admin_a", pk, d)
                 /\ response'.outcome \notin {"denied", "refused"})
                => /\ response'.form_error = "InvalidTimeRange"
                   /\ response'.outcome # "ok"
                   /\ reservations' = reservations]_vars

(* An edit that posted a window with end <= start was just turned down, by  *)
(* the form and by the model, for its time range.                           *)
C11_Witness ==
    /\ response.op = "update"
    /\ response.outcome = "invalid"
    /\ response.form_error = "InvalidTimeRange"
    /\ response.model_error = "InvalidTimeRange"
    /\ response.data.end_time <= response.data.start_time

DurationErrors == {"DurationTooShort", "DurationTooLong"}

OutOfBounds(d) ==
    \/ d.end_time - d.start_time < MinDurationSeconds
    \/ d.end_time - d.start_time > MaxDurationSeconds

PassesRangeAndPast(d, t) == d.start_time < d.end_time /\ d.start_time >= t

(* C12: every stored reservation lasts between 15 minutes and 8 hours,      *)
(* bounds included: a draft that passes the time-range and non-past checks  *)
(* is turned down for its duration exactly when it is shorter than 15       *)
(* minutes or longer than 8 hours, in Reservation.clean, in                 *)
(* ReservationForm.clean and by the duration field of the quick form.       *)
C12_DurationBoundsInclusive ==
    [][/\ \A r \in reservations' :
             /\ r.end_time - r.start_time >= MinDurationSeconds
             /\ r.end_time - r.start_time <= MaxDurationSeconds
       /\ \A d \in TimesDrafts :
             PassesRangeAndPast(d, now)
             => /\ Reservation_clean(Draft(d), reservations, rooms, now) \in DurationErrors
                      <=> OutOfBounds(d)
                /\ (response'.op = "create" /\ ReservationCreateView("admin_a", d))
                   => /\ response'.form_error \in DurationErrors <=> OutOfBounds(d)
                      /\ OutOfBounds(d)
                            => response'.outcome # "ok" /\ reservations' = reservations
                      /\ ~OutOfBounds(d) => response'.model_error \notin DurationErrors
                /\ \A pk \in 1..MaxReservations :
                      (/\ response'.op = "update"
                       /\ ReservationUpdateView("admin_a", pk, d)
                       /\ response'.outcome \notin {"denied", "refused"})
                      => /\ response'.form_error \in DurationErrors <=> OutOfBounds(d)
                         /\ OutOfBounds(d)
                               => response'.outcome # "ok" /\ reservations' = reservations
                         /\ ~OutOfBounds(d) => response'.model_error \notin DurationErrors
       /\ \A s \in Clock, m \in TimesDurations :
             (response'.op = "quick" /\ quick_reservation("admin_a", "a1", s, m))
             => /\ response'.field_error = "InvalidDuration"
                      <=> (m < QuickMinMinutes \/ m > QuickMaxMinutes)
                /\ response'.field_error = "InvalidDuration"
                      => reservations' = reservations]_vars

(* A reservation of exactly 15 minutes and one of exactly 8 hours are       *)
(* stored, and an edit to a window of 10 minutes was just turned down for   *)
(* its duration.                                                            *)
C12_Witness ==
    /\ \E r \in reservations : r.end_time - r.start_time = MinDurationSeconds
    /\ \E r \in reservations : r.end_time - r.start_time = MaxDurationSeconds
    /\ response.op = "update"
    /\ response.outcome = "invalid"
    /\ response.form_error = "DurationTooShort"
    /\ response.data.end_time - response.data.start_time = 600

(* C13: a create, quick-create or edit request whose start is earlier than  *)
(* the current time is not accepted and writes nothing; every row that a    *)
(* create, quick-create or edit writes starts at or after the time of the   *)
(* write.                                                                   *)
C13_NoPastStart ==
    [][/\ \A d \in TimesDrafts :
             d.start_time < now
             => /\ (response'.op = "create" /\ ReservationCreateView("admin_a", d))
                   => response'.outcome # "ok" /\ reservations' = reservations
                /\ \A pk \in 1..MaxReservations :
                      (response'.op = "update" /\ ReservationUpdateView("admin_a", pk, d))
                      => response'.outcome # "ok" /\ reservations' = reservations
       /\ \A s \in Clock, m \in TimesDurations :
             (s < now /\ response'.op = "quick" /\ quick_reservation("admin_a", "a1", s, m))
             => response'.outcome # "ok" /\ reservations' = reservations
       /\ \A q \in reservations' \ reservations : q.start_time >= now]_vars

(* An edit to a window of valid length that starts before the current time  *)
(* was just turned down for its start.                                      *)
C13_Witness ==
    /\ response.op = "update"
    /\ response.outcome = "invalid"
    /\ response.form_error = "PastStart"
    /\ response.data.start_time < now
    /\ ~OutOfBounds(response.data)

OverCapacity(d, rms) ==
    /\ d.participant_count # 0
    /\ d.participant_count > rms[d.meeting_room].capacity

RejectedForCapacity ==
    /\ response'.outcome = "invalid"
    /\ response'.form_error = "CapacityExceeded"
    /\ reservations' = reservations

(* C14: a draft with a participant count over the capacity of its room is   *)
(* turned down with the capacity error and is not stored (stated for the    *)
(* drafts that pass the time checks, which come first in every order); a    *)
(* draft without a participant count is never turned down for capacity.     *)
C14_OverCapacityRejectedAsCapacity ==
    [][\A d \in OfferedDrafts :
          /\ (OverCapacity(d, rooms) /\ PassesTimeChecks(d, now))
             => /\ (response'.op = "create" /\ ReservationCreateView("admin_a", d))
                   => RejectedForCapacity
                /\ \A pk \in 1..MaxReservations :
                      (/\ response'.op = "update"
                       /\ ReservationUpdateView("admin_a", pk, d)
                       /\ response'.outcome \notin {"denied", "refused"})
                      => RejectedForCapacity
          /\ d.participant_count = 0
             => /\ (response'.op = "create" /\ ReservationCreateView("admin_a", d))
                   => /\ response'.form_error # "CapacityExceeded"
                      /\ response'.model_error # "CapacityExceeded"
                /\ \A pk \in 1..MaxReservations :
                      (response'.op = "update" /\ ReservationUpdateView("admin_a", pk, d))
                      => /\ response'.form_error # "CapacityExceeded"
                         /\ response'.model_error # "CapacityExceeded"]_vars

(* C15: the duration limits that validation applies are those of the        *)
(* company's ReservationConfig, min_duration_minutes and                    *)
(* max_duration_hours (15 minutes and 8 hours being their defaults): every  *)
(* reservation that is written lasts between the two.                       *)
C15_DurationLimitsFollowConfig ==
    [][\A q \in reservations' \ reservations :
          /\ q.end_time - q.start_time >= configs[q.company].min_duration_minutes * 60
          /\ q.end_time - q.start_time <= configs[q.company].max_duration_hours * 3600]_vars

(* Pending or confirmed, and starting strictly after t *)
Cancellable(r, t) ==
    /\ r.status \in {STATUS_PENDING, STATUS_CONFIRMED}
    /\ r.start_time > t

(* C16: reservation_cancel changes a reservation only when its status is    *)
(* pending or confirmed and its start is strictly after the current time;   *)
(* otherwise the request leaves every field of every reservation as it was. *)
(* What it changes is the status of that one reservation, to cancelled.     *)
C16_CancelOnlyWhenCancellable ==
    [][\A u \in SchedUsers, pk \in 1..MaxReservations :
          (response'.op = "cancel" /\ reservation_cancel(u, pk))
          => /\ ~Cancellable(Row(pk), now) => reservations' = reservations
             /\ reservations' # reservations
                => reservations' = (reservations \ {Row(pk)})
                                      \cup {[Row(pk) EXCEPT !.status = STATUS_CANCELLED]}]_vars

(* Every stored reservation is pending or confirmed and has started, and a  *)
(* cancel request was just refused.                                         *)
C16_Witness ==
    /\ reservations # {}
    /\ \A r \in reservations :
          r.status \in {STATUS_PENDING, STATUS_CONFIRMED} /\ r.start_time <= now
    /\ response.op = "cancel"
    /\ response.outcome = "refused"

(* The reservation belongs to another company than the user's *)
OtherCompany(u, pk) == Row(pk).company # UserProfile[u].company

(* C17: a user of one company, its admin included, can never view, edit,    *)
(* cancel or change the status of a reservation of another company: such a  *)
(* request is denied and changes nothing.                                   *)
C17_TenantScoped ==
    [][\A u \in {"admin_a", "user_a"}, pk \in 1..MaxReservations :
          (pk \in Pks /\ OtherCompany(u, pk))
          => /\ (response'.op = "detail" /\ ReservationDetailView(u, pk))
                => response'.outcome = "denied"
             /\ (response'.op = "cancel" /\ reservation_cancel(u, pk))
                => response'.outcome = "denied" /\ reservations' = reservations
             /\ \A status \in STATUS_CHOICES :
                   (response'.op = "status" /\ ReservationStatusUpdateView(u, pk, status))
                   => response'.outcome = "denied" /\ reservations' = reservations
             /\ \A d \in TenantDrafts :
                   (response'.op = "update" /\ ReservationUpdateView(u, pk, d))
                   => response'.outcome = "denied" /\ reservations' = reservations]_vars

(* C18: no cross-tenant reference is stored: after any sequence of create,  *)
(* quick-create and edit requests the company of every reservation is the   *)
(* company of its meeting room.                                             *)
C18_CompanyOfRoom ==
    \A r \in reservations : r.company = rooms[r.meeting_room].company

(* A reservation that company B booked was just edited by the admin of      *)
(* company A: it now belongs to company A, in room a1.                      *)
C18_Witness ==
    /\ response.op = "update"
    /\ response.outcome = "ok"
    /\ \E r \in reservations :
          r.company = "A" /\ r.user = "admin_a" /\ r.meeting_room = "a1"

(* C19: a meeting room is never deleted while it has a reservation in an    *)
(* active status (pending, confirmed, in_use): a delete request for such a  *)
(* room leaves the room and every reservation in place, so the room of an   *)
(* active reservation always exists.                                        *)
C19_RoomWithActiveReservationsStays ==
    [][/\ \A m \in {"a1", "b1"} :
             (/\ response'.op = "room_delete"
              /\ \E r \in reservations : r.meeting_room = m /\ Blocking(r)
              /\ MeetingRoomDeleteView("admin_a", m))
             => rooms' = rooms /\ reservations' = reservations
       /\ \A r \in reservations' : Blocking(r) => r.meeting_room \in DOMAIN rooms']_vars

(* The delete of room a1 was just refused: its only active reservation is   *)
(* in use.                                                                  *)
C19_Witness ==
    /\ response.op = "room_delete"
    /\ response.outcome = "refused"
    /\ "a1" \in DOMAIN rooms
    /\ \E r \in reservations : r.meeting_room = "a1" /\ r.status = STATUS_IN_USE
    /\ \A r \in reservations : r.status \notin {STATUS_PENDING, STATUS_CONFIRMED}

(* The violations of the business rules *)
BusinessRuleErrors ==
    {"PastStart", "DurationTooShort", "DurationTooLong", "CapacityExceeded", "TimeConflict"}

(* C20: a request that violates a business rule (past start, duration out   *)
(* of bounds, capacity exceeded, time conflict) is answered with a          *)
(* validation error at every entry point; it never ends in an exception     *)
(* that no view handles.                                                    *)
C20_NoUnhandledException ==
    response.outcome = "crash"
    => /\ response.form_error \notin BusinessRuleErrors
       /\ response.model_error \notin BusinessRuleErrors

----------------------------------------------------------------------------
(* C21: the conflict checks (api_check_time_conflict, the check inside      *)
(* Reservation.clean) and get_available_time_slots are read-only and        *)
(* deterministic: a request that only checks, or that a conflict check      *)
(* refuses, changes no reservation, room or configuration, and the slots    *)
(* computed for a room, a date and a duration are the same in whatever      *)
(* order the database answers rows of the same start time.                  *)
C21_ChecksReadOnlyAndDeterministic ==
    [][/\ response'.op \in {"slots", "check_conflict"}
            => reservations' = reservations /\ rooms' = rooms /\ configs' = configs
       /\ (response' # response /\ "TimeConflict" \in {response'.form_error, response'.model_error})
            => reservations' = reservations /\ rooms' = rooms /\ configs' = configs
       /\ \A date \in SlotDates, duration \in SlotDurations :
             \A o1, o2 \in order_by_start_time(slots_reservations(reservations', "a1", date)) :
                get_available_time_slots("a1", date, duration, o1)
                    = get_available_time_slots("a1", date, duration, o2)]_vars

(* Slots were answered for a day on which two blocking reservations of the  *)
(* room start at the same time and end at different times                   *)
C21_Witness ==
    /\ response.op = "slots" /\ response.outcome = "ok" /\ response.meeting_room = "a1"
    /\ response.model_error = "ok"
    /\ \E r1, r2 \in slots_reservations(reservations, "a1", response.date) :
          r1.start_time = r2.start_time /\ r1.end_time < r2.end_time

----------------------------------------------------------------------------
(* The blocking reservations of a room on a date *)
BlockingOn(db, m, date) ==
    {r \in db : /\ r.meeting_room = m
                /\ Blocking(r)
                /\ r.start_time < (date + 1) * 86400
                /\ r.end_time > date * 86400}

(* They all lie inside the working window and no two of them overlap *)
OrderlyDay(db, m, date) ==
    /\ \A r \in BlockingOn(db, m, date) :
          9 * 3600 + date * 86400 <= r.start_time /\ r.end_time <= 18 * 3600 + date * 86400
    /\ \A r1, r2 \in BlockingOn(db, m, date) : r1 # r2 => ~Overlap(r1, r2)

(* The gaps of an orderly day that are long enough: from the start of the   *)
(* working window or the end of a reservation to the next start of a        *)
(* reservation or the end of the working window                             *)
Gaps(db, m, date, duration) ==
    LET rs == BlockingOn(db, m, date)
        froms == {9 * 3600 + date * 86400} \cup {r.end_time : r \in rs}
        tos == {18 * 3600 + date * 86400} \cup {r.start_time : r \in rs}
    IN  {[start |-> s, end |-> e, duration |-> (e - s) \div 60] : s \in froms, e \in tos}
        \cap {g \in [start : froms, end : tos, duration : 0..1440] :
                /\ g.start < g.end
                /\ \A r \in rs : ~(r.start_time < g.end /\ g.start < r.end_time)
                /\ g.end - g.start >= duration * 60}

Ascending(slots) ==
    \A i, j \in DOMAIN slots : i < j => slots[i].start < slots[j].start

(* C22: on a day whose blocking reservations all lie inside the working     *)
(* window and do not overlap, get_available_time_slots returns, in          *)
(* ascending order of start, exactly the gaps of at least duration_minutes  *)
(* between the start of the window, the reservations and its end.           *)
C22_SlotsAreTheGaps ==
    (/\ response.op = "slots"
     /\ response.model_error # "DoesNotExist"
     /\ OrderlyDay(reservations, response.meeting_room, response.date))
    => /\ response.outcome = "ok"
       /\ Ascending(response.slots)
       /\ {response.slots[k] : k \in DOMAIN response.slots}
              = Gaps(reservations, response.meeting_room, response.date, response.duration)

----------------------------------------------------------------------------
(* C23: every slot get_available_time_slots returns is free: it overlaps no *)
(* reservation of the room in status pending, confirmed or in_use, whatever *)
(* is stored, reservations that span midnight or overlap each other         *)
(* included.                                                                *)
C23_SlotsAreFree ==
    response.op = "slots"
    => \A k \in DOMAIN response.slots :
          \A r \in reservations :
             (r.meeting_room = response.meeting_room /\ Blocking(r))
             => ~(r.start_time < response.slots[k].end
                  /\ response.slots[k].start < r.end_time)

(* Slots were returned for a day on which two stored blocking reservations  *)
(* overlap, one of them lasting past midnight                               *)
C23_Witness ==
    /\ response.op = "slots" /\ response.outcome = "ok"
    /\ Len(response.slots) > 0
    /\ \E r1, r2 \in BlockingOn(reservations, response.meeting_room, response.date) :
          /\ r1 # r2 /\ Overlap(r1, r2)
          /\ r2.end_time > (response.date + 1) * 86400

----------------------------------------------------------------------------
(* The reservations api_check_time_conflict was asked about: those of the   *)
(* room in a blocking status, other than the one named by reservation_id,   *)
(* that overlap the window                                                  *)
AskedAbout ==
    {r \in reservations :
        /\ r.meeting_room = response.meeting_room
        /\ Blocking(r)
        /\ r.pk # response.reservation_id
        /\ r.start_time < response.end_time
        /\ response.start_time < r.end_time}

(* C24: api_check_time_conflict answers is_conflicting = true exactly when  *)
(* a reservation of the room in a blocking status, other than the one named *)
(* by reservation_id, overlaps the window [start_time, end_time), and       *)
(* conflicting_count is the number of such reservations.                    *)
C24_ConflictAnswerCounts ==
    (response.op = "check_conflict" /\ response.outcome = "ok")
    => /\ response.is_conflicting = (AskedAbout # {})
       /\ response.conflicting_count = Cardinality(AskedAbout)

(* Two blocking reservations overlap the window, one of them is the one     *)
(* named by reservation_id, and the answer counts the other                 *)
C24_Witness ==
    /\ response.op = "check_conflict" /\ response.outcome = "ok"
    /\ response.is_conflicting /\ response.conflicting_count = 1
    /\ \E r \in reservations :
          /\ r.pk = response.reservation_id /\ Blocking(r)
          /\ r.meeting_room = response.meeting_room
          /\ r.start_time < response.end_time /\ response.start_time < r.end_time

----------------------------------------------------------------------------
(* C25: status changes are atomic check-and-set: whatever the interleaving  *)
(* of two requests that change the status of the same reservation, every    *)
(* change of the stored status goes from a status to one of its permitted   *)
(* successors, so that it never leaves cancelled, rejected or completed.    *)
C25_StatusChangesAreCheckAndSet ==
    [][\A r \in reservations, q \in reservations' :
          (q.pk = r.pk /\ q.status # r.status)
          => <<r.status, q.status>> \in PermittedTransitions]_vars

----------------------------------------------------------------------------
(* C26: no write to a reservation is accepted once its start time is        *)
(* earlier than now: a stored reservation whose start has passed stays as   *)
(* it is, its status included, whatever is requested.                       *)
C26_NoWriteAfterStart ==
    [][\A r \in reservations :
          r.start_time < now => r \in reservations']_vars

(* A status update of a confirmed reservation was turned down because its   *)
(* start has passed                                                         *)
C26_Witness ==
    /\ response.op = "status" /\ response.outcome = "invalid"
    /\ response.field_error = "ok" /\ response.model_error = "PastStart"
    /\ \E r \in reservations : r.status = STATUS_CONFIRMED /\ r.start_time < now
    /\ \A r \in reservations : r.status = STATUS_CONFIRMED

----------------------------------------------------------------------------
(* C27: a reservation that can be cancelled (pending or confirmed, start    *)
(* still ahead) can always be cancelled: a reservation_cancel POST by its   *)
(* owner or by a company admin leaves it stored as cancelled, whatever was  *)
(* changed on its room or on other reservations since it was booked.        *)
C27_CancellableIsCancelled ==
    [][\A u \in {"user_a", "admin_a"}, pk \in 1..MaxReservations :
          (/\ response'.op = "cancel"
           /\ pk \in Pks
           /\ Cancellable(Row(pk), now)
           /\ (is_company_admin(u) \/ Row(pk).user = u)
           /\ reservation_cancel(u, pk))
          => StatusOf(reservations', pk) = STATUS_CANCELLED]_vars

----------------------------------------------------------------------------
(* C28: editing a reservation leaves its owner unchanged: after             *)
(* ReservationUpdateView saves an edit, the reservation's user is the user  *)
(* who created it, also when a company admin who is not the owner edits.    *)
C28_EditKeepsOwner ==
    [][\A r \in reservations, q \in reservations' :
          q.pk = r.pk => q.user = r.user]_vars

----------------------------------------------------------------------------
----------------------------------------------------------------------------
(* C30: the room, the start and the end of a reservation are frozen once    *)
(* it can no longer be cancelled: when its status is in_use, completed,     *)
(* cancelled or rejected, or its start has passed, no edit, cancel or       *)
(* status update changes its meeting room, start_time or end_time.          *)
C30_FrozenOnceNotCancellable ==
    [][\A r \in reservations :
          ~Cancellable(r, now)
          => \E q \in reservations' :
                /\ q.pk = r.pk
                /\ q.meeting_room = r.meeting_room
                /\ q.start_time = r.start_time
                /\ q.end_time = r.end_time]_vars

(* An edit of a reservation in use, posted before its start, was refused *)
C30_Witness ==
    /\ response.op = "update" /\ response.outcome = "refused"
    /\ \E r \in reservations : r.status = STATUS_IN_USE /\ r.start_time > now
    /\ \A r \in reservations : r.status = STATUS_IN_USE

====
